---- MODULE Spec2Model ----
(***************************************************************************)
(* Model of mcstatus: server handles (mcstatus/server.py), their address   *)
(* resolution, and the retried ping / status / query operations.           *)
(*                                                                         *)
(* Text (host names, addresses) is a sequence of one-character-or-label    *)
(* tokens, so that urlparse's split at ":", its lower-casing of the host,  *)
(* the decimal reading of the port and rstrip(".") are computed.           *)
(***************************************************************************)
EXTENDS Integers, Sequences, FiniteSets, TLC

\* ------------------------------------------------------------------ bounds
\* Largest latency (ms) a test_ping measures in the model: values 0..MaxLatency.
MaxLatency == 1
\* Largest number of records a DNS answer holds in the model.
MaxAnswers == 2
\* Failed attempts that two interleaved invocations meet between them.
MaxFaults == 2

\* --------------------------------------------------------- program constants
JAVA_DEFAULT_PORT == 25565
BEDROCK_DEFAULT_PORT == 19139
MAX_PORT == 65535

\* ------------------------------------------------------------------- text
NoPort == -1

Digits == {"0", "1", "2", "3", "4", "5", "6", "7", "8", "9"}

DigitVal(t) ==
    CASE t = "0" -> 0 [] t = "1" -> 1 [] t = "2" -> 2 [] t = "3" -> 3
      [] t = "4" -> 4 [] t = "5" -> 5 [] t = "6" -> 6 [] t = "7" -> 7
      [] t = "8" -> 8 [] t = "9" -> 9

\* int(port, 10) of a string of decimal digits.
RECURSIVE ToInt(_)
ToInt(s) ==
    IF s = <<>> THEN 0
    ELSE 10 * ToInt(SubSeq(s, 1, Len(s) - 1)) + DigitVal(s[Len(s)])

\* str.lower() on one token.
LowerTok(t) ==
    CASE t = "MC" -> "mc" [] t = "Example" -> "example" [] OTHER -> t

Lower(s) == [i \in 1..Len(s) |-> LowerTok(s[i])]

\* str.rstrip("."): drops every trailing "." token.
RECURSIVE RStripDot(_)
RStripDot(s) ==
    IF s # <<>> /\ s[Len(s)] = "." THEN RStripDot(SubSeq(s, 1, Len(s) - 1)) ELSE s

\* Index of the first ":" of s, 0 when there is none (str.partition(":")).
FirstColon(s) ==
    IF \E i \in 1..Len(s) : s[i] = ":"
    THEN CHOOSE i \in 1..Len(s) : s[i] = ":" /\ \A j \in 1..(i - 1) : s[j] # ":"
    ELSE 0

\* urlparse("//" + address): the netloc split at its first ":" into
\* hostname (lower-cased, none when empty) and port text (none when empty).
UrlHostname(address) ==
    LET c == FirstColon(address)
    IN  Lower(IF c = 0 THEN address ELSE SubSeq(address, 1, c - 1))

UrlPortText(address) ==
    LET c == FirstColon(address)
    IN  IF c = 0 THEN <<>> ELSE SubSeq(address, c + 1, Len(address))

\* The .port property: None for no port text, ValueError for a text that is
\* not all digits or a number outside 0..65535.
UrlPortRaises(address) ==
    LET p == UrlPortText(address)
    IN  /\ p # <<>>
        /\ \/ \E i \in 1..Len(p) : p[i] \notin Digits
           \/ ToInt(p) > MAX_PORT

UrlPort(address) ==
    LET p == UrlPortText(address)
    IN  IF p = <<>> THEN NoPort ELSE ToInt(p)

\* MCServer.parse_address: [raised, host, port]; port = NoPort stands for None.
parse_address(address) ==
    IF UrlHostname(address) = <<>> \/ UrlPortRaises(address)
    THEN [raised |-> "ValueError", host |-> <<>>, port |-> NoPort]
    ELSE [raised |-> "none", host |-> UrlHostname(address), port |-> UrlPort(address)]

\* MCServer.ensure_valid on a string host and an integer port.
ensure_valid(host, port) ==
    IF port > MAX_PORT \/ port < 0 THEN "ValueError" ELSE "none"

\* A Python object handed to a constructor: its type, and its value when it is
\* a str (a text) or an int.
StrObj(text) == [t |-> "str", v |-> text]
IntObj(n) == [t |-> "int", v |-> n]
NoneObj == [t |-> "NoneType"]

\* MCServer.ensure_valid(host, port) on any two objects: the isinstance checks,
\* then the range check.
ensure_valid_objects(host, port) ==
    IF host.t # "str" THEN "TypeError"
    ELSE IF port.t # "int" THEN "TypeError"
    ELSE ensure_valid(host.v, port.v)

\* Hosts and ports handed to JavaServer(...) / BedrockServer(...) directly.
HostObjects == { StrObj(<<"mc">>), StrObj(<<>>), NoneObj }

PortObjects ==
    { IntObj(25565), IntObj(0), IntObj(65535), IntObj(65536), IntObj(-1),
      StrObj(<<"2", "5", "5", "6", "5">>) }

\* Addresses handed to lookup.
Addresses ==
    { <<"mc", ".", "org">>,
      <<"MC", ".", "org">>,
      <<"mc", ".", "org", ":", "1", "2", "3", "4">>,
      <<"Example", ":", "0">>,
      <<"mc", ":", "6", "5", "5", "3", "5">>,
      <<"mc", ":", "6", "5", "5", "3", "6">>,
      <<"mc", ":">>,
      <<"mc", ":", "x">>,
      <<":", "1">>,
      <<>> }

\* ------------------------------------------------------------ DNS resolver
\* What dns.resolver.resolve can do: raise (a DNSException such as NXDOMAIN,
\* Timeout, a malformed answer, or another exception), or return an answer of
\* zero or more records.
DnsExceptions == {"NXDOMAIN", "Timeout", "FormError"}
OtherExceptions == {"OSError"}

SrvRecords ==
    { [target |-> <<"srv", ".", "org", ".">>, port |-> 25570, portOk |-> ok] : ok \in BOOLEAN }
    \cup { [target |-> <<"alt", ".", "org">>, port |-> 25571, portOk |-> ok] : ok \in BOOLEAN }

ARecords == { <<"10", ".", "0", ".", "0", ".", "1">>, <<"10", ".", "0", ".", "0", ".", "2", ".">> }

SeqsUpTo(S, n) == UNION { [1..k -> S] : k \in 0..n }

NoDns == [kind |-> "none", exc |-> "none", recs |-> <<>>]

DnsRaises == { [kind |-> "raise", exc |-> e, recs |-> <<>>] : e \in DnsExceptions \cup OtherExceptions }

SrvOutcomes == DnsRaises \cup { [kind |-> "answer", exc |-> "none", recs |-> r] : r \in SeqsUpTo(SrvRecords, MaxAnswers) }

AOutcomes == DnsRaises \cup { [kind |-> "answer", exc |-> "none", recs |-> r] : r \in SeqsUpTo(ARecords, MaxAnswers) }

\* ---------------------------------------------------------------- handles
NoServer == [edition |-> "none", host |-> <<>>, port |-> NoPort]

\* cls(host, port, timeout=timeout): MCServer.__init__ after ensure_valid.
Construct(edition, host, port, queried) ==
    IF ensure_valid(host, port) # "none"
    THEN [raised |-> ensure_valid(host, port), server |-> NoServer, queried |-> queried]
    ELSE [raised |-> "none",
          server |-> [edition |-> edition, host |-> host, port |-> port],
          queried |-> queried]

\* Variant: the handler narrowed to "except DNSException".
LookupCatches_dns_only(exc) == exc \in DnsExceptions

\* "except Exception" of JavaServer.lookup: every exception class is caught.
LookupCatches(exc) == TRUE

\* The try block of JavaServer.lookup, entered with port = 25565: the (host, port)
\* it leaves behind, or the exception that escapes it.
SrvTry(host, srv) ==
    IF srv.kind = "raise"
    THEN [raised |-> IF LookupCatches(srv.exc) THEN "none" ELSE srv.exc,
          host |-> host, port |-> JAVA_DEFAULT_PORT]
    ELSE IF Len(srv.recs) = 0
    THEN [raised |-> "none", host |-> host, port |-> JAVA_DEFAULT_PORT]
    ELSE LET answer == srv.recs[1]
             target == RStripDot(answer.target)
         IN  \* host is assigned before int(answer.port) is evaluated
             IF answer.portOk
             THEN [raised |-> "none", host |-> target, port |-> answer.port]
             ELSE [raised |-> IF LookupCatches("ValueError") THEN "none" ELSE "ValueError",
                   host |-> target, port |-> JAVA_DEFAULT_PORT]

\* Variant: the SRV lookup is made whatever the address holds.
LookupAsksSrv_always(port) == TRUE

\* Whether JavaServer.lookup asks the resolver: "if port is None".
LookupAsksSrv(port) == port = NoPort

SrvName(host) == <<"_minecraft._tcp.">> \o host

\* JavaServer.lookup(address): [raised, server, queried]; queried lists the
\* names the resolver was asked for.
JavaServer_lookup(address, srv) ==
    LET p == parse_address(address)
    IN  IF p.raised # "none"
        THEN [raised |-> p.raised, server |-> NoServer, queried |-> <<>>]
        ELSE IF ~LookupAsksSrv(p.port)
        THEN Construct("java", p.host, p.port, <<>>)
        ELSE LET t == SrvTry(p.host, srv)
             IN  IF t.raised # "none"
                 THEN [raised |-> t.raised, server |-> NoServer, queried |-> <<SrvName(p.host)>>]
                 ELSE Construct("java", t.host, t.port, <<SrvName(p.host)>>)

\* BedrockServer.lookup(address): parse only; cls(host) takes the constructor's
\* default port.
BedrockServer_lookup(address) ==
    LET p == parse_address(address)
    IN  IF p.raised # "none"
        THEN [raised |-> p.raised, server |-> NoServer, queried |-> <<>>]
        ELSE IF p.port = NoPort
        THEN Construct("bedrock", p.host, BEDROCK_DEFAULT_PORT, <<>>)
        ELSE Construct("bedrock", p.host, p.port, <<>>)

\* ------------------------------------------------------- response builders
\* A decoded JSON value is a Python object: its type and its value. A dict's
\* value is a function whose domain is the keys it holds ("key in raw" is
\* membership in that domain), a list's a sequence, a str's a text.
DictObj(m) == [t |-> "dict", v |-> m]
ListObj(q) == [t |-> "list", v |-> q]
BoolObj(b) == [t |-> "bool", v |-> b]
ObjectObj == [t |-> "object"]
EmptyDict == [k \in {} |-> NoneObj]

RequiredStatusKeys == << <<"players", "dict">>, <<"version", "dict">>, <<"description", "str">> >>
RequiredPlayersKeys == << <<"online", "int">>, <<"max", "int">> >>
RequiredSampleKeys == << <<"sample", "list">> >>
RequiredPlayerKeys == << <<"name", "str">>, <<"id", "str">> >>
RequiredVersionKeys == << <<"name", "str">>, <<"protocol", "int">> >>

\* isinstance(value, type) on the value's type (bool is a subclass of int).
IsInstance(tag, type) == type = "object" \/ tag = type \/ (tag = "bool" /\ type = "int")

\* _validate_data: the exception raised for the first required key that is
\* missing (ValueError) or of another type (TypeError), "none" when all pass.
RECURSIVE ValidateFrom(_, _, _)
ValidateFrom(raw, required, i) ==
    IF i > Len(required) THEN "none"
    ELSE IF required[i][1] \notin DOMAIN raw THEN "ValueError"
    ELSE IF ~IsInstance(raw[required[i][1]].t, required[i][2]) THEN "TypeError"
    ELSE ValidateFrom(raw, required, i + 1)

\* Variant: a missing key reported with the exception of a wrong type.
validate_data_missing_as_type(raw, required) ==
    IF ValidateFrom(raw, required, 1) = "ValueError" THEN "TypeError"
    ELSE ValidateFrom(raw, required, 1)

\* Variant: a wrong type reported with the exception of a missing key.
validate_data_type_as_missing(raw, required) ==
    IF ValidateFrom(raw, required, 1) = "TypeError" THEN "ValueError"
    ELSE ValidateFrom(raw, required, 1)

validate_data(raw, required) == ValidateFrom(raw, required, 1)

NotBuilt == [t |-> "NotBuilt"]

\* JavaStatusPlayer.build(raw): [raised, value]. "key not in raw" on an element
\* that is no dict: False on a str or a list (ValueError follows), TypeError
\* on an object that is no container.
JavaStatusPlayer_build(raw) ==
    IF raw.t \in {"str", "list"} THEN [raised |-> "ValueError", value |-> NotBuilt]
    ELSE IF raw.t # "dict" THEN [raised |-> "TypeError", value |-> NotBuilt]
    ELSE IF validate_data(raw.v, RequiredPlayerKeys) # "none"
    THEN [raised |-> validate_data(raw.v, RequiredPlayerKeys), value |-> NotBuilt]
    ELSE [raised |-> "none",
          value |-> [t |-> "JavaStatusPlayer", name |-> raw.v.name, id |-> raw.v.id]]

\* [JavaStatusPlayer.build(player) for player in raw["sample"]]: the exception
\* of the first element that fails.
RECURSIVE SampleRaised(_, _)
SampleRaised(q, i) ==
    IF i > Len(q) THEN "none"
    ELSE IF JavaStatusPlayer_build(q[i]).raised # "none"
    THEN JavaStatusPlayer_build(q[i]).raised
    ELSE SampleRaised(q, i + 1)

\* JavaStatusPlayers.build(raw) on a dict's mapping.
JavaStatusPlayers_build(raw) ==
    IF validate_data(raw, RequiredPlayersKeys) # "none"
    THEN [raised |-> validate_data(raw, RequiredPlayersKeys), value |-> NotBuilt]
    ELSE IF "sample" \notin DOMAIN raw
    THEN [raised |-> "none",
          value |-> [t |-> "JavaStatusPlayers", online |-> raw.online, max |-> raw.max,
                     sample |-> NoneObj]]
    ELSE IF validate_data(raw, RequiredSampleKeys) # "none"
    THEN [raised |-> validate_data(raw, RequiredSampleKeys), value |-> NotBuilt]
    ELSE IF SampleRaised(raw.sample.v, 1) # "none"
    THEN [raised |-> SampleRaised(raw.sample.v, 1), value |-> NotBuilt]
    ELSE [raised |-> "none",
          value |-> [t |-> "JavaStatusPlayers", online |-> raw.online, max |-> raw.max,
                     sample |-> ListObj([i \in 1..Len(raw.sample.v) |->
                                            JavaStatusPlayer_build(raw.sample.v[i]).value])]]

\* JavaStatusVersion.build(raw) on a dict's mapping.
JavaStatusVersion_build(raw) ==
    IF validate_data(raw, RequiredVersionKeys) # "none"
    THEN [raised |-> validate_data(raw, RequiredVersionKeys), value |-> NotBuilt]
    ELSE [raised |-> "none",
          value |-> [t |-> "JavaStatusVersion", name |-> raw.name, protocol |-> raw.protocol]]

\* STYLE_MAP: the colour table, and the style keys in the order of the dict.
\* "$" stands for the section sign that starts a legacy formatting code.
ColorCodes ==
    [dark_red |-> "4", red |-> "c", gold |-> "6", yellow |-> "e", dark_green |-> "2",
     green |-> "a", aqua |-> "b", dark_aqua |-> "3", dark_blue |-> "1", blue |-> "9",
     light_purple |-> "d", dark_purple |-> "5", white |-> "f", gray |-> "7",
     dark_gray |-> "8", black |-> "0"]

StyleKeys == <<"color", "bold", "strikethrough", "italic", "underlined", "obfuscated", "reset">>

StyleCode(key) ==
    CASE key = "bold" -> "l" [] key = "strikethrough" -> "m" [] key = "italic" -> "o"
      [] key = "underlined" -> "n" [] key = "obfuscated" -> "k" [] key = "reset" -> "r"

\* bool(value)
Truthy(obj) ==
    CASE obj.t = "bool" -> obj.v
      [] obj.t = "int" -> obj.v # 0
      [] obj.t = "str" -> obj.v # <<>>
      [] obj.t = "list" -> obj.v # <<>>
      [] obj.t = "NoneType" -> FALSE
      [] OTHER -> TRUE

\* STYLE_MAP as the module defines it: "color" maps to the colour table, every
\* other style key to its code.
STYLE_MAP ==
    [key \in {StyleKeys[k] : k \in 1..Len(StyleKeys)} |->
       IF key = "color" THEN DictObj(ColorCodes) ELSE [t |-> "str", v |-> StyleCode(key)]]

\* The code one style key of an entry adds to the description: nothing when
\* entry.get(style_key) is falsy or the colour is not in the table (KeyError).
StyleOf(table, entry, key) ==
    IF key \notin DOMAIN entry \/ ~Truthy(entry[key]) THEN <<>>
    ELSE IF table[key].t = "dict"
    THEN IF entry[key].t = "str" /\ Len(entry[key].v) = 1
            /\ entry[key].v[1] \in DOMAIN table[key].v
         THEN <<"$", table[key].v[entry[key].v[1]]>>
         ELSE <<>>
    ELSE <<"$", table[key].v>>

\* Variant: bold is looked at before color.
StyleOrder_bold_first ==
    <<"bold", "color", "strikethrough", "italic", "underlined", "obfuscated", "reset">>

\* for style_key, style_val in STYLE_MAP.items(): the order of the keys.
StyleOrder == StyleKeys

RECURSIVE StylesFrom(_, _, _)
StylesFrom(table, entry, k) ==
    IF k > Len(StyleOrder) THEN <<>>
    ELSE StyleOf(table, entry, StyleOrder[k]) \o StylesFrom(table, entry, k + 1)

EntryText(table, entry) ==
    StylesFrom(table, entry, 1) \o (IF "text" \in DOMAIN entry THEN entry.text.v ELSE <<>>)

RECURSIVE EntriesFrom(_, _, _)
EntriesFrom(table, entries, i) ==
    IF i > Len(entries) THEN <<>>
    ELSE EntryText(table, entries[i].v) \o EntriesFrom(table, entries, i + 1)

\* _parse_motd(raw_motd) on a str, a dict or a list, reading the style table
\* as it is when the call is made.
parse_motd_with(table, raw_motd) ==
    IF raw_motd.t = "str" THEN raw_motd.v
    ELSE IF raw_motd.t = "dict"
    THEN EntriesFrom(table,
                     IF "extra" \in DOMAIN raw_motd.v THEN raw_motd.v.extra.v ELSE <<>>, 1)
         \o (IF "text" \in DOMAIN raw_motd.v THEN raw_motd.v.text.v ELSE <<>>)
    ELSE EntriesFrom(table, raw_motd.v, 1)

\* The style table after a call of _parse_motd: the loop rebinds its own
\* variable style_val and assigns nothing to STYLE_MAP.
StyleMapAfter(table, raw_motd) == table

\* JavaStatusResponse._parse_motd(raw_motd)
parse_motd(raw_motd) == parse_motd_with(STYLE_MAP, raw_motd)

\* Variant: raw.get("favicon", "").
Icon_default_empty(raw) == IF "favicon" \in DOMAIN raw THEN raw.favicon ELSE StrObj(<<>>)

\* icon=raw.get("favicon")
Icon(raw) == IF "favicon" \in DOMAIN raw THEN raw.favicon ELSE NoneObj

\* JavaStatusResponse.build(raw, latency): [raised, value]; the keyword
\* arguments are evaluated in the order players, version, motd, icon.
JavaStatusResponse_built(raw, latency) ==
    IF validate_data(raw, RequiredStatusKeys) # "none"
    THEN [raised |-> validate_data(raw, RequiredStatusKeys), value |-> NotBuilt]
    ELSE IF JavaStatusPlayers_build(raw.players.v).raised # "none"
    THEN [raised |-> JavaStatusPlayers_build(raw.players.v).raised, value |-> NotBuilt]
    ELSE IF JavaStatusVersion_build(raw.version.v).raised # "none"
    THEN [raised |-> JavaStatusVersion_build(raw.version.v).raised, value |-> NotBuilt]
    ELSE [raised |-> "none",
          value |-> [t |-> "JavaStatusResponse",
                     raw |-> raw,
                     players |-> JavaStatusPlayers_build(raw.players.v).value,
                     version |-> JavaStatusVersion_build(raw.version.v).value,
                     motd |-> parse_motd(raw.description),
                     icon |-> Icon(raw),
                     latency |-> latency]]

\* Variant: a build that validates nothing.
JavaStatusResponse_build_accepts(raw) == "none"

\* JavaStatusResponse.build: the exception it raises, "none" when it builds.
JavaStatusResponse_build(raw) == JavaStatusResponse_built(raw, 0).raised

NoRaw == EmptyDict

ValidPlayers == [online |-> IntObj(0), max |-> IntObj(20)]
ValidVersion == [name |-> StrObj(<<"1.8-pre1">>), protocol |-> IntObj(44)]
ValidDescription == StrObj(<<"A Minecraft Server">>)

ValidRaw ==
    [players |-> DictObj(ValidPlayers), version |-> DictObj(ValidVersion),
     description |-> ValidDescription]

\* The status payloads a server replies with in the model: a valid one, one
\* without description, one whose players is a list.
StatusPayloads ==
    { ValidRaw,
      [players |-> DictObj(ValidPlayers), version |-> DictObj(ValidVersion)],
      [players |-> ListObj(<<>>), version |-> DictObj(ValidVersion),
       description |-> ValidDescription] }

\* ------------------------------------------------------------- operations
PingOps == {"ping", "async_ping"}
StatusOps == {"status", "async_status"}
QueryOps == {"query", "async_query"}
BedrockOps == {"bedrock_status", "bedrock_async_status"}
Ops == PingOps \cup StatusOps \cup QueryOps \cup BedrockOps

Latencies == 0..MaxLatency

NoExc == [cls |-> "none", cause |-> "none", step |-> "none", attempt |-> 0]

Exc(cls, cause, step, attempt) ==
    [cls |-> cls, cause |-> cause, step |-> step, attempt |-> attempt]

NoValue == [kind |-> "none", raw |-> NoRaw, latency |-> -1, attempt |-> 0]

NoOutcome == [kind |-> "none", exc |-> NoExc, value |-> NoValue]

Return(value) == [kind |-> "return", exc |-> NoExc, value |-> value]

Raise(exc) == [kind |-> "raise", exc |-> exc, value |-> NoValue]

\* What the server sent in answer to a status request (none yet).
NoReply == [kind |-> "none", raw |-> NoRaw]

\* The challenge tokens a server issues in answer to a query handshake; a
\* querier that has made no handshake holds none.
Challenges == {1, 2}
NoChallenge == -1

\* One attempt of a retried function: the channel it uses (0: none yet), the
\* protocol steps it has performed, in order, the latency its test_ping
\* measured, its local `result`, the exception that ended it, the reply its
\* read_status received, the challenge token its querier holds and the one
\* its stat request carried.
NewAttempt(chan) ==
    [chan |-> chan, steps |-> <<>>, latency |-> -1, result |-> NoValue, exc |-> NoExc,
     reply |-> NoReply, challenge |-> NoChallenge, stat_challenge |-> NoChallenge]

\* Variant: one attempt more.
RetryTries_four(o) == 4

\* Variant: the suspendable forms are tried twice.
RetryTries_suspendable_two(o) ==
    IF o \in {"async_ping", "async_status", "async_query", "bedrock_async_status"} THEN 2 ELSE 3

\* @retry(tries=3) on every retried function.
RetryTries(o) == 3

\* The retry wrapper's classes of failure: I/O-kind failures are retried,
\* validation failures (ValueError, TypeError) are not.
Retryable(exc) == exc.cls = "IOError"

\* The retry wrapper after attempt n ended with exc: run another attempt, or
\* raise exc to the caller.
retry_decision(o, n, exc) ==
    IF Retryable(exc) /\ n < RetryTries(o) THEN "retry" ELSE "raise"

\* Whether the channel is created (and connected) inside the retried function:
\* JavaServer.ping / status and their async forms create it before the call of
\* _retry_*, and pass it in; _retry_query / _retry_async_query create it.
ConnectInsideRetry(o) == o \in QueryOps

\* The first protocol step of a retried function's body.
FirstStep(o) ==
    IF o \in QueryOps THEN "connect"
    ELSE IF o \in BedrockOps THEN "bedrock_read"
    ELSE "handshake"

\* Variant: _retry_status goes from the handshake straight to test_ping.
AfterHandshake_skip_status(o) ==
    IF o \in QueryOps THEN "read_query" ELSE "test_ping"

\* The step that follows a successful handshake.
AfterHandshake(o) ==
    IF o \in PingOps THEN "test_ping"
    ELSE IF o \in StatusOps THEN "read_status"
    ELSE "read_query"

\* The channel a new attempt of the retried function runs on, given the one
\* the previous attempt ran on: _retry_ping / _retry_status (and async forms)
\* are called again with the same `connection` argument; the query functions
\* and BedrockServerStatus build their own (0: not created yet).
AttemptConnection(o, connection) ==
    IF o \in PingOps \cup StatusOps THEN connection ELSE 0

\* Variant: the querier of the previous attempt is used again.
AttemptQuerier_kept(o, challenge) == challenge

\* The challenge token the querier of a new attempt holds, given the one the
\* previous attempt's querier held: _retry_query / _retry_async_query make a
\* new ServerQuerier(connection) in every attempt.
AttemptQuerier(o, challenge) == NoChallenge

\* The try / except DNSException of JavaServer.query and async_query: the host
\* handed to _retry_query, or the exception that escapes.
QueryCatches(exc) == exc \in DnsExceptions

\* Variant: the last record of the answer is taken instead of the first.
query_host_last(host, dns) ==
    IF dns.kind = "raise"
    THEN [raised |-> IF QueryCatches(dns.exc) THEN "none" ELSE dns.exc, host |-> host]
    ELSE IF Len(dns.recs) = 0
    THEN [raised |-> "none", host |-> host]
    ELSE [raised |-> "none", host |-> RStripDot(dns.recs[Len(dns.recs)])]

query_host(host, dns) ==
    IF dns.kind = "raise"
    THEN [raised |-> IF QueryCatches(dns.exc) THEN "none" ELSE dns.exc, host |-> host]
    ELSE IF Len(dns.recs) = 0
    THEN [raised |-> "none", host |-> host]
    ELSE [raised |-> "none", host |-> RStripDot(dns.recs[1])]

\* ---------------------------------------------------- protocol round trips
IoFailures == {"transport", "protocol"}

\* The ping tokens a pinger sends and a server echoes, and the packet ids of
\* a reply to a ping (1: pong).
Tokens == {14515484, 12345}
PongIds == {1, 31}

\* What comes back after a ping request: nothing (a transport failure), or a
\* packet with its id and the token it echoes, after `latency` milliseconds.
PingReplies ==
    { [kind |-> "transport", id |-> 0, token |-> 0, latency |-> -1] }
    \cup { [kind |-> "packet", id |-> i, token |-> k, latency |-> l] :
              i \in PongIds, k \in Tokens, l \in Latencies }

StatusReplies ==
    { [kind |-> k, raw |-> NoRaw] : k \in {"transport", "badid", "badjson"} }
    \cup { [kind |-> "payload", raw |-> r] : r \in StatusPayloads }

\* ServerPinger.read_status in attempt n: the response it returns or the
\* exception it raises. A wrong packet id, unparsable JSON and a payload the
\* builder rejects are all raised as IOError.
read_status(reply, n) ==
    IF reply.kind = "transport" THEN Raise(Exc("IOError", "transport", "read_status", n))
    ELSE IF reply.kind \in {"badid", "badjson"}
    THEN Raise(Exc("IOError", "protocol", "read_status", n))
    ELSE IF JavaStatusResponse_build(reply.raw) # "none"
    THEN Raise(Exc("IOError", "validation", "read_status", n))
    ELSE Return([kind |-> "status", raw |-> reply.raw, latency |-> 0, attempt |-> n])

\* Variant: any pong is accepted, whatever token it echoes.
PongAccepted_any_token(token, reply) == reply.id = 1

\* The reply is the pong of the ping sent with `token`.
PongAccepted(token, reply) == reply.id = 1 /\ reply.token = token

\* ServerPinger.test_ping in attempt n, with the token it sends: the latency
\* or the exception.
test_ping(token, reply, n) ==
    IF reply.kind = "transport"
    THEN [raised |-> Exc("IOError", "transport", "test_ping", n), latency |-> -1]
    ELSE IF ~PongAccepted(token, reply)
    THEN [raised |-> Exc("IOError", "protocol", "test_ping", n), latency |-> -1]
    ELSE [raised |-> NoExc, latency |-> reply.latency]

\* _retry_ping / _retry_async_ping: "return pinger.test_ping()".
retry_ping_finish(tp, n) ==
    IF tp.raised # NoExc THEN Raise(tp.raised)
    ELSE Return([kind |-> "ping", raw |-> NoRaw, latency |-> tp.latency, attempt |-> n])

\* Variant: a failure of test_ping is swallowed and the status result returned.
retry_status_finish_swallow(result, tp) ==
    IF tp.raised # NoExc THEN Return(result)
    ELSE Return([result EXCEPT !.latency = tp.latency])

\* Variant: the latency measured is not assigned to the result.
retry_status_finish_unassigned(result, tp) ==
    IF tp.raised # NoExc THEN Raise(tp.raised) ELSE Return(result)

\* _retry_status / _retry_async_status: "result.latency = pinger.test_ping();
\* return result".
retry_status_finish(result, tp) ==
    IF tp.raised # NoExc THEN Raise(tp.raised)
    ELSE Return([result EXCEPT !.latency = tp.latency])

QueryReplies == {"ok"} \cup IoFailures

\* ServerQuerier.read_query in attempt n.
read_query(reply, n) ==
    IF reply = "ok"
    THEN Return([kind |-> "query", raw |-> NoRaw, latency |-> -1, attempt |-> n])
    ELSE Raise(Exc("IOError", reply, "read_query", n))

BedrockReplies == {"ok", "ValueError"} \cup IoFailures

\* BedrockServerStatus(...).read_status() in attempt n: one datagram round
\* trip; BedrockStatusResponse.build raises ValueError on a non-numeric
\* protocol / online / max field.
bedrock_read_status(reply, n) ==
    IF reply = "ok"
    THEN Return([kind |-> "bedrock", raw |-> NoRaw, latency |-> 0, attempt |-> n])
    ELSE IF reply = "ValueError"
    THEN Raise(Exc("ValueError", "validation", "bedrock_read", n))
    ELSE Raise(Exc("IOError", reply, "bedrock_read", n))

\* ------------------------------------------------------- one call's steps
\* A call of an operation on a handle: the operation, the handle, the next
\* step, the host handed to the retried query function, the attempts made and
\* how the call ended. Each step is a function of the call and of what the
\* network did; `id` names the channel a step creates.
Step(a, name) == [a EXCEPT ![Len(a)].steps = Append(@, name)]

\* The retry wrapper around one attempt that ended with completion c (the
\* attempts, updated with the step just made, are a2): a returned value ends
\* the call; an exception is recorded and either a new attempt starts or the
\* exception is raised to the caller.
AttemptEnded(call, a2, c) ==
    LET n == Len(a2)
        a3 == [a2 EXCEPT ![n].exc = c.exc]
    IN  IF c.kind = "return"
        THEN [call EXCEPT !.attempts = a2, !.outcome = c, !.pc = "done"]
        ELSE IF retry_decision(call.op, n, c.exc) = "retry"
        THEN [call EXCEPT
                !.attempts =
                    Append(a3, [NewAttempt(AttemptConnection(call.op, a3[n].chan)) EXCEPT
                                  !.challenge = AttemptQuerier(call.op, a3[n].challenge)]),
                !.pc = FirstStep(call.op)]
        ELSE [call EXCEPT !.attempts = a3, !.outcome = c, !.pc = "done"]

\* Variant: the connection is kept on the handle and a later call to the same
\* host and port takes it from there.
NewConnection_kept_on_handle(srv, made) ==
    IF \E k \in 1..Len(made) : made[k].host = srv.host /\ made[k].port = srv.port
    THEN CHOOSE k \in 1..Len(made) : made[k].host = srv.host /\ made[k].port = srv.port
    ELSE Len(made) + 1

\* connection = TCPSocketConnection(...) and its like: a new object, bound to
\* a local name of the call; `made` are the channels made so far.
NewConnection(srv, made) == Len(made) + 1

\* The call as ping / status / query / Bedrock status begin it: ping and
\* status create the channel next, before the retried function is entered;
\* query resolves the A record (outcome d) and enters _retry_query(host);
\* Bedrock status enters its retried body.
Started(o, srv, d) ==
    LET c == [op |-> o, server |-> srv, pc |-> "connect", qhost |-> <<>>,
              attempts |-> <<>>, outcome |-> NoOutcome]
        h == query_host(srv.host, d)
    IN  IF o \in QueryOps
        THEN IF h.raised # "none"
             THEN [c EXCEPT !.outcome = Raise(Exc(h.raised, "dns", "resolve", 0)),
                            !.pc = "done"]
             ELSE [c EXCEPT !.pc = FirstStep(o), !.attempts = <<NewAttempt(0)>>,
                            !.qhost = h.host]
        ELSE IF o \in BedrockOps
        THEN [c EXCEPT !.pc = "bedrock_read", !.attempts = <<NewAttempt(0)>>]
        ELSE c

\* The channel is created and connected: TCP(Async)SocketConnection for ping
\* and status (before the retried function, so a failure is raised to the
\* caller), UDP(Async)SocketConnection for query (inside the retried function).
ConnectStep(call, ok, id) ==
    LET n == Len(call.attempts)
    IN  IF ConnectInsideRetry(call.op)
        THEN IF ok
             THEN [call EXCEPT !.attempts = Step([@ EXCEPT ![n].chan = id], "connect"),
                               !.pc = "handshake"]
             ELSE AttemptEnded(call, Step([call.attempts EXCEPT ![n].chan = id], "connect"),
                               Raise(Exc("IOError", "transport", "connect", n)))
        ELSE IF ok
             THEN [call EXCEPT !.attempts = <<NewAttempt(id)>>, !.pc = FirstStep(call.op)]
             ELSE [call EXCEPT !.pc = "done",
                               !.outcome = Raise(Exc("IOError", "transport", "connect", 0))]

\* pinger.handshake() / querier.handshake(): the querier keeps the challenge
\* token the server answered with.
HandshakeStep(call, r, challenge) ==
    IF r = "ok"
    THEN [call EXCEPT
            !.attempts = Step([@ EXCEPT ![Len(call.attempts)].challenge =
                                 IF call.op \in QueryOps THEN challenge ELSE @],
                              "handshake"),
            !.pc = AfterHandshake(call.op)]
    ELSE AttemptEnded(call, Step(call.attempts, "handshake"),
                      Raise(Exc("IOError", r, "handshake", Len(call.attempts))))

\* result = pinger.read_status()
ReadStatusStep(call, reply) ==
    LET n == Len(call.attempts)
        r == read_status(reply, n)
        a2 == [Step(call.attempts, "read_status") EXCEPT ![n].reply = reply]
    IN  IF r.kind = "return"
        THEN [call EXCEPT !.attempts = [a2 EXCEPT ![n].result = r.value], !.pc = "test_ping"]
        ELSE AttemptEnded(call, a2, r)

\* pinger.test_ping(), and the end of _retry_ping / _retry_status
TestPingStep(call, token, reply) ==
    LET n == Len(call.attempts)
        tp == test_ping(token, reply, n)
        a2 == [Step(call.attempts, "test_ping") EXCEPT ![n].latency = tp.latency]
    IN  IF call.op \in PingOps
        THEN AttemptEnded(call, a2, retry_ping_finish(tp, n))
        ELSE AttemptEnded(call, a2, retry_status_finish(a2[n].result, tp))

\* return querier.read_query(): the stat request carries the challenge token
\* the querier holds.
ReadQueryStep(call, reply) ==
    LET n == Len(call.attempts)
    IN  AttemptEnded(call,
                     Step([call.attempts EXCEPT ![n].stat_challenge = call.attempts[n].challenge],
                          "read_query"),
                     read_query(reply, n))

\* return BedrockServerStatus(host, port, timeout).read_status()
BedrockReadStep(call, reply, id) ==
    LET n == Len(call.attempts)
    IN  AttemptEnded(call, Step([call.attempts EXCEPT ![n].chan = id], "bedrock_read"),
                     bedrock_read_status(reply, n))

\* ------------------------------------------------------------------ state
VARIABLES
    server,     \* the server handle lookup made last (NoServer: none)
    lk,         \* the last lookup: its address, the resolver's outcome, its result
    op,         \* the operation being called ("none": no call in progress)
    pc,         \* the next step of the call
    dns,        \* the A-record outcome of the query call in progress
    qhost,      \* the host handed to _retry_query / _retry_async_query
    chans,      \* the channels created by the call, in order of creation
    attempts,   \* the attempts of the retried function made by the call
    outcome,    \* how the call ended: a returned value or a raised exception
    unit,       \* the last direct use of a constructor, builder or pinger
    calls,      \* the calls in progress side by side, by invocation
    pool        \* the channels created by the calls in progress side by side

vars == <<server, lk, op, pc, dns, qhost, chans, attempts, outcome, unit, calls, pool>>

\* The handle's calls one at a time leave the calls side by side alone.
sideVars == <<calls, pool>>

NoUnit == [kind |-> "none"]

NoLookup == [state |-> "none", edition |-> "none", address |-> <<>>, srv |-> NoDns,
             raised |-> "none", queried |-> <<>>]

Init ==
    /\ server = NoServer
    /\ lk = NoLookup
    /\ op = "none"
    /\ pc = "idle"
    /\ dns = NoDns
    /\ qhost = <<>>
    /\ chans = <<>>
    /\ attempts = <<>>
    /\ outcome = NoOutcome
    /\ unit = NoUnit
    /\ calls = <<>>
    /\ pool = <<>>

callVars == <<op, pc, dns, qhost, chans, attempts, outcome>>

\* JavaServer.lookup(address)
JavaLookup ==
    /\ pc = "idle"
    /\ \E address \in Addresses, srv \in SrvOutcomes :
         LET r == JavaServer_lookup(address, srv)
         IN  /\ lk' = [state |-> "done", edition |-> "java", address |-> address,
                       srv |-> IF r.queried = <<>> THEN NoDns ELSE srv,
                       raised |-> r.raised, queried |-> r.queried]
             /\ server' = r.server
    /\ unit' = NoUnit
    /\ UNCHANGED callVars
    /\ UNCHANGED sideVars

\* BedrockServer.lookup(address)
BedrockLookup ==
    /\ pc = "idle"
    /\ \E address \in Addresses :
         LET r == BedrockServer_lookup(address)
         IN  /\ lk' = [state |-> "done", edition |-> "bedrock", address |-> address,
                       srv |-> NoDns, raised |-> r.raised, queried |-> r.queried]
             /\ server' = r.server
    /\ unit' = NoUnit
    /\ UNCHANGED callVars
    /\ UNCHANGED sideVars

\* The call in progress, and a step of it taking effect.
Call ==
    [op |-> op, server |-> server, pc |-> pc, qhost |-> qhost, attempts |-> attempts,
     outcome |-> outcome]

Becomes(call) ==
    /\ attempts' = call.attempts
    /\ outcome' = call.outcome
    /\ pc' = call.pc

\* JavaServer.ping / async_ping / status / async_status are called: the
\* channel is created next, before the retried function is entered.
StartPing ==
    /\ pc = "idle"
    /\ server.edition = "java"
    /\ \E o \in PingOps \cup StatusOps :
         /\ op' = o
         /\ Becomes(Started(o, server, NoDns))
    /\ lk' = NoLookup
    /\ unit' = NoUnit
    /\ UNCHANGED <<server, dns, qhost, chans>>
    /\ UNCHANGED sideVars

\* JavaServer.query / async_query are called: the A-record lookup, then the
\* first attempt of _retry_query(host).
StartQuery ==
    /\ pc = "idle"
    /\ server.edition = "java"
    /\ \E o \in QueryOps, d \in AOutcomes :
         /\ op' = o
         /\ dns' = d
         /\ Becomes(Started(o, server, d))
         /\ qhost' = Started(o, server, d).qhost
    /\ lk' = NoLookup
    /\ unit' = NoUnit
    /\ UNCHANGED <<server, chans>>
    /\ UNCHANGED sideVars

\* BedrockServer.status / async_status are called: the first attempt.
StartBedrock ==
    /\ pc = "idle"
    /\ server.edition = "bedrock"
    /\ \E o \in BedrockOps :
         /\ op' = o
         /\ Becomes(Started(o, server, NoDns))
    /\ lk' = NoLookup
    /\ unit' = NoUnit
    /\ UNCHANGED <<server, dns, qhost, chans>>
    /\ UNCHANGED sideVars

\* A channel as its constructor leaves it: connected or not, and not released.
\* No statement of ping, status, query or their retried functions closes a
\* connection, and none is created under a with or try/finally.
Channel(kind, host, port, connected) ==
    [kind |-> kind, host |-> host, port |-> port, connected |-> connected,
     released |-> FALSE]

\* The channel of the call's connect step.
ChannelOf(call, ok) ==
    IF call.op \in QueryOps THEN Channel("udp", call.qhost, call.server.port, ok)
    ELSE IF call.op \in BedrockOps THEN Channel("udp", call.server.host, call.server.port, ok)
    ELSE Channel("tcp", call.server.host, call.server.port, ok)

Connect ==
    /\ pc = "connect"
    /\ \E ok \in BOOLEAN :
         /\ chans' = Append(chans, ChannelOf(Call, ok))
         /\ Becomes(ConnectStep(Call, ok, NewConnection(server, chans)))
    /\ UNCHANGED <<server, lk, unit, op, dns, qhost>>
    /\ UNCHANGED sideVars

Handshake ==
    /\ pc = "handshake"
    /\ \E r \in {"ok"} \cup (IF op \in QueryOps THEN IoFailures ELSE {"transport"}) :
       \E challenge \in (IF op \in QueryOps /\ r = "ok" THEN Challenges ELSE {NoChallenge}) :
         Becomes(HandshakeStep(Call, r, challenge))
    /\ UNCHANGED <<server, lk, unit, op, dns, qhost, chans>>
    /\ UNCHANGED sideVars

ReadStatus ==
    /\ pc = "read_status"
    /\ \E reply \in StatusReplies : Becomes(ReadStatusStep(Call, reply))
    /\ UNCHANGED <<server, lk, unit, op, dns, qhost, chans>>
    /\ UNCHANGED sideVars

TestPing ==
    /\ pc = "test_ping"
    /\ \E token \in Tokens, reply \in PingReplies : Becomes(TestPingStep(Call, token, reply))
    /\ UNCHANGED <<server, lk, unit, op, dns, qhost, chans>>
    /\ UNCHANGED sideVars

ReadQuery ==
    /\ pc = "read_query"
    /\ \E reply \in QueryReplies : Becomes(ReadQueryStep(Call, reply))
    /\ UNCHANGED <<server, lk, unit, op, dns, qhost, chans>>
    /\ UNCHANGED sideVars

BedrockRead ==
    /\ pc = "bedrock_read"
    /\ \E reply \in BedrockReplies :
         /\ chans' = Append(chans, ChannelOf(Call, TRUE))
         /\ Becomes(BedrockReadStep(Call, reply, NewConnection(server, chans)))
    /\ UNCHANGED <<server, lk, unit, op, dns, qhost>>
    /\ UNCHANGED sideVars

\* The call has returned or raised; the handle is ready for the next call.
Finish ==
    /\ pc = "done"
    /\ pc' = "idle"
    /\ op' = "none"
    /\ dns' = NoDns
    /\ qhost' = <<>>
    /\ chans' = <<>>
    /\ attempts' = <<>>
    /\ outcome' = NoOutcome
    /\ unit' = NoUnit
    /\ UNCHANGED <<server, lk>>
    /\ UNCHANGED sideVars

\* ------------------------------------------------ builders used directly
\* Raw payloads handed to JavaStatusResponse.build: every key of the valid
\* payload left out, or holding an object of another type, in every
\* combination; with and without the optional sample and favicon; a
\* description that is rich text.
Absent == [t |-> "absent"]

\* The dict holding the keys of rec whose value is not Absent.
Mk(rec) == [k \in {x \in DOMAIN rec : rec[x] # Absent} |-> rec[k]]

ValidPlayer == DictObj([name |-> StrObj(<<"Dinnerbone">>), id |-> StrObj(<<"61699b2e">>)])

SampleVariants ==
    { Absent, ObjectObj, ListObj(<<ValidPlayer>>),
      ListObj(<<ValidPlayer, DictObj([name |-> StrObj(<<"jeb_">>)])>>) }

PlayersVariants ==
    { Absent, ObjectObj }
    \cup { DictObj(Mk([online |-> o, max |-> m, sample |-> q])) :
             o \in {IntObj(0), Absent, ObjectObj}, m \in {IntObj(20), ObjectObj},
             q \in SampleVariants }

VersionVariants ==
    { Absent, ObjectObj }
    \cup { DictObj(Mk([name |-> n, protocol |-> pr])) :
             n \in {StrObj(<<"1.8-pre1">>), Absent, ObjectObj},
             pr \in {IntObj(44), Absent} }

RichDict ==
    DictObj([text |-> StrObj(<<"!">>),
             extra |-> ListObj(<< DictObj([color |-> StrObj(<<"red">>), bold |-> BoolObj(TRUE),
                                           text |-> StrObj(<<"Hi">>)]) >>)])

RichList == ListObj(<< DictObj([text |-> StrObj(<<"Hi">>)]) >>)

DescriptionVariants == { ValidDescription, Absent, IntObj(5), RichDict, RichList }

FaviconVariants == { Absent, StrObj(<<"data:image/png;base64,AAAA">>) }

BuildInputs ==
    { Mk([players |-> pl, version |-> ve, description |-> de, favicon |-> fa]) :
        pl \in PlayersVariants, ve \in VersionVariants,
        de \in DescriptionVariants, fa \in FaviconVariants }

\* JavaStatusResponse.build(raw) called on a raw payload; the call has then
\* returned or raised.
BuildJava ==
    /\ pc = "idle"
    /\ \E raw \in BuildInputs :
         LET r == JavaStatusResponse_built(raw, 0)
         IN  unit' = [kind |-> "build", raw |-> raw, raised |-> r.raised, value |-> r.value]
    /\ op' = "build"
    /\ pc' = "done"
    /\ lk' = NoLookup
    /\ UNCHANGED <<server, dns, qhost, chans, attempts, outcome>>
    /\ UNCHANGED sideVars

\* Descriptions handed to _parse_motd: mappings and lists of entries with
\* every style key, a colour that is not in the table, a style that is false,
\* an entry without text, a mapping without extra.
MotdEntries ==
    { DictObj([color |-> StrObj(<<"red">>), bold |-> BoolObj(TRUE), text |-> StrObj(<<"Hi">>)]),
      DictObj([color |-> StrObj(<<"pink">>), italic |-> BoolObj(TRUE),
               text |-> StrObj(<<"there">>)]),
      DictObj([bold |-> BoolObj(FALSE), reset |-> BoolObj(TRUE)]),
      DictObj([color |-> StrObj(<<"gold">>), bold |-> BoolObj(TRUE),
               strikethrough |-> BoolObj(TRUE), italic |-> BoolObj(TRUE),
               underlined |-> BoolObj(TRUE), obfuscated |-> BoolObj(TRUE),
               reset |-> BoolObj(TRUE), text |-> StrObj(<<"all">>)]) }

MotdInputs ==
    { ListObj(q) : q \in SeqsUpTo(MotdEntries, 2) }
    \cup { DictObj([extra |-> ListObj(q), text |-> StrObj(<<"!">>)]) :
             q \in SeqsUpTo(MotdEntries, 2) }
    \cup { DictObj([text |-> StrObj(<<"!">>)]), DictObj([extra |-> ListObj(<<>>)]),
           RichDict, RichList }

\* JavaStatusResponse._parse_motd(raw_motd) called twice on one description.
ParseMotd ==
    /\ pc = "idle"
    /\ \E raw_motd \in MotdInputs :
         LET after == StyleMapAfter(STYLE_MAP, raw_motd)
         IN  unit' = [kind |-> "motd", raw_motd |-> raw_motd,
                      out |-> parse_motd_with(STYLE_MAP, raw_motd),
                      table |-> after,
                      again |-> parse_motd_with(after, raw_motd)]
    /\ op' = "build"
    /\ pc' = "done"
    /\ lk' = NoLookup
    /\ UNCHANGED <<server, dns, qhost, chans, attempts, outcome>>
    /\ UNCHANGED sideVars

\* decoded_data[i], with the index counted from 0 as the code counts it.
Field(decoded, i) == decoded[i + 1]

\* int(text) succeeds on a non-empty string of decimal digits.
Numeric(text) == text # <<>> /\ \A k \in 1..Len(text) : text[k] \in Digits

\* Variant: the optional field is read one place further on.
OptionalField_next(decoded, i) ==
    IF i + 1 < Len(decoded) THEN StrObj(Field(decoded, i + 1)) ELSE NoneObj

\* try: decoded_data[i] / except IndexError: None
OptionalField(decoded, i) ==
    IF i < Len(decoded) THEN StrObj(Field(decoded, i)) ELSE NoneObj

\* BedrockStatusResponse.build(decoded_data, latency): [raised, value]. The
\* constructor's arguments are evaluated in the order online, max, name,
\* protocol, brand, motd; indexing past the end raises IndexError and int()
\* of a text that is no number raises ValueError.
BedrockStatusResponse_build(decoded, latency) ==
    IF Len(decoded) <= 4 THEN [raised |-> "IndexError", value |-> NotBuilt]
    ELSE IF ~Numeric(Field(decoded, 4)) THEN [raised |-> "ValueError", value |-> NotBuilt]
    ELSE IF Len(decoded) <= 5 THEN [raised |-> "IndexError", value |-> NotBuilt]
    ELSE IF ~Numeric(Field(decoded, 5)) THEN [raised |-> "ValueError", value |-> NotBuilt]
    ELSE IF ~Numeric(Field(decoded, 2)) THEN [raised |-> "ValueError", value |-> NotBuilt]
    ELSE [raised |-> "none",
          value |-> [t |-> "BedrockStatusResponse",
                     players |-> [online |-> ToInt(Field(decoded, 4)),
                                  max |-> ToInt(Field(decoded, 5))],
                     version |-> [name |-> Field(decoded, 3),
                                  protocol |-> ToInt(Field(decoded, 2)),
                                  brand |-> Field(decoded, 0)],
                     motd |-> Field(decoded, 1),
                     latency |-> latency,
                     map_name |-> OptionalField(decoded, 7),
                     gamemode |-> OptionalField(decoded, 8)]]

\* The fields of one pong, in order: edition, motd, protocol, version name,
\* online, max, server id, map name, gamemode.
BedrockFields ==
    << <<"MCPE">>, <<"motd">>, <<"4", "2", "2">>, <<"1.18">>, <<"1">>, <<"6", "9">>,
       <<"guid">>, <<"map">>, <<"Default">> >>

\* Decoded field lists handed to BedrockStatusResponse.build: every prefix of
\* the pong's fields, with each of protocol, online and max numeric or not.
BedrockInputs ==
    { [i \in 1..n |-> IF (i - 1) \in bad THEN <<"x">> ELSE BedrockFields[i]] :
        n \in 0..Len(BedrockFields), bad \in SUBSET {2, 4, 5} }

\* BedrockStatusResponse.build(decoded_data, latency) called on a field list;
\* the call has then returned or raised.
BuildBedrock ==
    /\ pc = "idle"
    /\ \E decoded \in BedrockInputs, latency \in Latencies :
         LET r == BedrockStatusResponse_build(decoded, latency)
         IN  unit' = [kind |-> "bedrock_build", decoded |-> decoded, latency |-> latency,
                      raised |-> r.raised, value |-> r.value]
    /\ op' = "build"
    /\ pc' = "done"
    /\ lk' = NoLookup
    /\ UNCHANGED <<server, dns, qhost, chans, attempts, outcome>>
    /\ UNCHANGED sideVars

\* ------------------------------------------------ the pinger used directly
\* Bytes are 0..255. The characters of the host names used, as ASCII.
Ord(ch) ==
    CASE ch = "l" -> 108 [] ch = "o" -> 111 [] ch = "c" -> 99 [] ch = "a" -> 97
      [] ch = "h" -> 104 [] ch = "s" -> 115 [] ch = "t" -> 116 [] ch = "m" -> 109

\* connection.write_varint(n): seven bits a byte, lowest first, the high bit
\* set on every byte but the last.
RECURSIVE WriteVarint(_)
WriteVarint(n) ==
    IF n < 128 THEN <<n>> ELSE <<(n % 128) + 128>> \o WriteVarint(n \div 128)

\* connection.write_utf(text): the varint length, then the bytes.
WriteUtf(text) == WriteVarint(Len(text)) \o [i \in 1..Len(text) |-> Ord(text[i])]

\* connection.write_ushort(n): two bytes, big-endian.
WriteUShort(n) == <<n \div 256, n % 256>>

\* The `width` low bytes of n, big-endian.
RECURSIVE BigEndian(_, _)
BigEndian(n, width) ==
    IF width = 0 THEN <<>> ELSE BigEndian(n \div 256, width - 1) \o <<n % 256>>

\* connection.write_long(n): eight bytes, big-endian.
WriteLong(n) == BigEndian(n, 8)

\* connection.write_buffer(packet): the varint length of the packet, then
\* the packet.
WriteBuffer(body) == WriteVarint(Len(body)) \o body

\* The packet handshake() writes: id 0, protocol version, host, port, next
\* state 1.
HandshakePacket(version, host, port) ==
    WriteBuffer(<<0>> \o WriteVarint(version) \o WriteUtf(host) \o WriteUShort(port) \o <<1>>)

\* The packet read_status() writes: id 0, no field.
StatusRequestPacket == WriteBuffer(<<0>>)

\* Variant: the ping is written without its length prefix.
PingPacket_unframed(token) == <<1>> \o WriteLong(token)

\* The packet test_ping() writes: id 1, the token.
PingPacket(token) == WriteBuffer(<<1>> \o WriteLong(token))

\* The servers pingers are made for: host, port and protocol version.
PingerTargets ==
    { [host |-> <<"l", "o", "c", "a", "l", "h", "o", "s", "t">>, port |-> 25565, version |-> 44],
      [host |-> <<"m", "c">>, port |-> 80, version |-> 754] }

\* ServerPinger(Connection(), address, version): a pinger of its own, with
\* the packets it has written to its connection, whether handshake() was
\* called on it, the method called last, the ping token it sent and the reply
\* to it, and what the call raised or returned.
NewPinger ==
    /\ pc = "idle"
    /\ \E target \in PingerTargets :
         unit' = [kind |-> "pinger", target |-> target, handshaken |-> FALSE, sent |-> <<>>,
                  called |-> "none", token |-> 0, pong |-> [kind |-> "none"],
                  exc |-> NoExc, value |-> NoValue, latency |-> -1]
    /\ op' = "pinger"
    /\ pc' = "pinger"
    /\ lk' = NoLookup
    /\ UNCHANGED <<server, dns, qhost, chans, attempts, outcome>>
    /\ UNCHANGED sideVars

Sent(name, bytes) == [name |-> name, bytes |-> bytes]

\* pinger.handshake(): writes the handshake packet.
PingerHandshake ==
    /\ pc = "pinger"
    /\ ~unit.handshaken
    /\ unit' = [unit EXCEPT
                  !.handshaken = TRUE,
                  !.sent = Append(@, Sent("handshake",
                                          HandshakePacket(unit.target.version, unit.target.host,
                                                          unit.target.port))),
                  !.called = "handshake"]
    /\ UNCHANGED <<server, lk, op, pc, dns, qhost, chans, attempts, outcome>>
    /\ UNCHANGED sideVars

\* pinger.read_status(): writes the status request, whether or not
\* handshake() was called before, and reads the reply.
PingerReadStatus ==
    /\ pc = "pinger"
    /\ \E reply \in StatusReplies :
         LET r == read_status(reply, 1)
         IN  unit' = [unit EXCEPT !.sent = Append(@, Sent("status_request", StatusRequestPacket)),
                                  !.called = "read_status",
                                  !.exc = r.exc, !.value = r.value]
    /\ pc' = "done"
    /\ UNCHANGED <<server, lk, op, dns, qhost, chans, attempts, outcome>>
    /\ UNCHANGED sideVars

\* pinger.test_ping(): writes the ping request with its token, whether or
\* not handshake() was called before, and reads the reply.
PingerTestPing ==
    /\ pc = "pinger"
    /\ \E token \in Tokens, reply \in PingReplies :
         LET tp == test_ping(token, reply, 1)
         IN  unit' = [unit EXCEPT !.sent = Append(@, Sent("ping_request", PingPacket(token))),
                                  !.called = "test_ping",
                                  !.token = token, !.pong = reply,
                                  !.exc = tp.raised, !.latency = tp.latency]
    /\ pc' = "done"
    /\ UNCHANGED <<server, lk, op, dns, qhost, chans, attempts, outcome>>
    /\ UNCHANGED sideVars

\* The class's default port: JavaServer.__init__(port=25565),
\* BedrockServer.__init__(port=19139).
DefaultPort(edition) ==
    IF edition = "java" THEN JAVA_DEFAULT_PORT ELSE BEDROCK_DEFAULT_PORT

\* JavaServer(host, port) / BedrockServer(host, port), or with the port left
\* to its default: MCServer.__init__ makes the handle unless ensure_valid raises.
MCServer_init(edition, host, port) ==
    IF ensure_valid_objects(host, port) # "none"
    THEN [raised |-> ensure_valid_objects(host, port), server |-> NoServer]
    ELSE [raised |-> "none",
          server |-> [edition |-> edition, host |-> host.v, port |-> port.v]]

ConstructDirect ==
    /\ pc = "idle"
    /\ \E edition \in {"java", "bedrock"}, host \in HostObjects :
       \E port \in PortObjects \cup {IntObj(DefaultPort(edition))} :
         LET r == MCServer_init(edition, host, port)
         IN  /\ unit' = [kind |-> "ctor", edition |-> edition, host |-> host,
                         port |-> port, raised |-> r.raised]
             /\ server' = r.server
    /\ lk' = NoLookup
    /\ UNCHANGED callVars
    /\ UNCHANGED sideVars

Next ==
    \/ ConstructDirect
    \/ BuildJava
    \/ BuildBedrock
    \/ ParseMotd
    \/ NewPinger
    \/ PingerHandshake
    \/ PingerReadStatus
    \/ PingerTestPing
    \/ JavaLookup
    \/ BedrockLookup
    \/ StartPing
    \/ StartQuery
    \/ StartBedrock
    \/ Connect
    \/ Handshake
    \/ ReadStatus
    \/ TestPing
    \/ ReadQuery
    \/ BedrockRead
    \/ Finish

Spec == Init /\ [][Next]_vars

\* ------------------------------------------------- calls side by side
\* Handles that calls are made on side by side.
Handles ==
    { [edition |-> "java", host |-> <<"mc", ".", "org">>, port |-> JAVA_DEFAULT_PORT],
      [edition |-> "java", host |-> <<"srv", ".", "org">>, port |-> 1234],
      [edition |-> "bedrock", host |-> <<"mc", ".", "org">>, port |-> BEDROCK_DEFAULT_PORT] }

OpsOf(srv) == IF srv.edition = "java" THEN PingOps \cup StatusOps \cup QueryOps ELSE BedrockOps

\* An invocation of operation o on handle srv: the call as it begins, the A
\* record outcome it met and the I/O outcomes it has met since, in order.
Invocation(o, srv, d) ==
    LET c == Started(o, srv, d)
    IN  [op |-> c.op, server |-> c.server, pc |-> c.pc, qhost |-> c.qhost,
         attempts |-> c.attempts, outcome |-> c.outcome, dns |-> d, io |-> <<>>]

\* A channel in the pool: the invocation whose statement created it and the
\* invocations that have written to it or read from it.
Owned(ch, i) ==
    [kind |-> ch.kind, host |-> ch.host, port |-> ch.port, connected |-> ch.connected,
     released |-> ch.released, owner |-> i, users |-> {}]

\* The steps that create a channel.
Creates(e) == e.step \in {"connect", "bedrock_read"}

\* One step of a call on the I/O outcome e; id names the channel it creates.
IoStep(call, e, id) ==
    CASE e.step = "connect" -> ConnectStep(call, e.input.ok, id)
      [] e.step = "handshake" -> HandshakeStep(call, e.input.r, e.input.challenge)
      [] e.step = "read_status" -> ReadStatusStep(call, e.input.reply)
      [] e.step = "test_ping" -> TestPingStep(call, e.input.token, e.input.reply)
      [] e.step = "read_query" -> ReadQueryStep(call, e.input.reply)
      [] e.step = "bedrock_read" -> BedrockReadStep(call, e.input.reply, id)

\* The calls and the pool after invocation i made its next step on the I/O
\* outcome e: the step acts on the call's own record, and on the channel the
\* call's attempt holds (or the one the step creates).
After(cs, pl, i, e) ==
    LET id == NewConnection(cs[i].server, pl)
        made == IF Creates(e)
                THEN Append(pl, Owned(ChannelOf(cs[i], IF e.step = "connect"
                                                         THEN e.input.ok ELSE TRUE), i))
                ELSE pl
        ch == IF Creates(e) THEN id ELSE cs[i].attempts[Len(cs[i].attempts)].chan
    IN  [calls |-> [cs EXCEPT ![i] = [IoStep(cs[i], e, id) EXCEPT !.io = Append(@, e)]],
         pool |-> [made EXCEPT ![ch].users = @ \cup {i}]]

\* The I/O outcomes a step of a call can meet.
ConnectOutcomes == { [step |-> "connect", input |-> [ok |-> ok]] : ok \in BOOLEAN }

HandshakeOutcomes(o) ==
    IF o \in QueryOps
    THEN { [step |-> "handshake", input |-> [r |-> "ok", challenge |-> c]] : c \in Challenges }
         \cup { [step |-> "handshake", input |-> [r |-> r, challenge |-> NoChallenge]] :
                   r \in IoFailures }
    ELSE { [step |-> "handshake", input |-> [r |-> r, challenge |-> NoChallenge]] :
             r \in {"ok", "transport"} }

ReadStatusOutcomes == { [step |-> "read_status", input |-> [reply |-> r]] : r \in StatusReplies }

TestPingOutcomes ==
    { [step |-> "test_ping", input |-> [token |-> t, reply |-> r]] :
        t \in Tokens, r \in PingReplies }

ReadQueryOutcomes == { [step |-> "read_query", input |-> [reply |-> r]] : r \in QueryReplies }

BedrockReadOutcomes ==
    { [step |-> "bedrock_read", input |-> [reply |-> r]] : r \in BedrockReplies }

seqVars == <<server, lk, op, pc, dns, qhost, chans, attempts, outcome, unit>>

\* --------------------------------- the two forms of an operation, in step
\* The blocking and the suspendable form of each operation.
Forms ==
    { <<"ping", "async_ping">>, <<"status", "async_status">>, <<"query", "async_query">>,
      <<"bedrock_status", "bedrock_async_status">> }

\* The blocking form (invocation 1) and the suspendable form (invocation 2)
\* of one operation are called on one handle and meet the same A record.
TwinStart ==
    /\ calls = <<>>
    /\ \E f \in Forms, srv \in Handles, d \in AOutcomes :
         /\ f[1] \in OpsOf(srv)
         /\ f[1] \notin QueryOps => d = CHOOSE x \in AOutcomes : TRUE
         /\ calls' = <<Invocation(f[1], srv, d), Invocation(f[2], srv, d)>>
    /\ pool' = <<>>
    /\ UNCHANGED seqVars

\* Both forms make their next step and meet the same I/O outcome e.
Both(e) ==
    /\ calls # <<>>
    /\ calls[1].pc = e.step
    /\ calls[2].pc = e.step
    /\ LET a == After(calls, pool, 1, e)
           b == After(a.calls, a.pool, 2, e)
       IN  /\ calls' = b.calls
           /\ pool' = b.pool
    /\ UNCHANGED seqVars

TwinConnect ==
    /\ calls # <<>>
    /\ \E e \in ConnectOutcomes : Both(e)

TwinHandshake ==
    /\ calls # <<>>
    /\ \E e \in HandshakeOutcomes(calls[1].op) : Both(e)

TwinReadStatus ==
    /\ calls # <<>>
    /\ \E e \in ReadStatusOutcomes : Both(e)

TwinTestPing ==
    /\ calls # <<>>
    /\ \E e \in TestPingOutcomes : Both(e)

TwinReadQuery ==
    /\ calls # <<>>
    /\ \E e \in ReadQueryOutcomes : Both(e)

TwinBedrockRead ==
    /\ calls # <<>>
    /\ \E e \in BedrockReadOutcomes : Both(e)

TwinNext ==
    \/ TwinStart
    \/ TwinConnect
    \/ TwinHandshake
    \/ TwinReadStatus
    \/ TwinTestPing
    \/ TwinReadQuery
    \/ TwinBedrockRead

TwinSpec == Init /\ [][TwinNext]_vars

\* ------------------------------------------- two invocations, interleaved
\* The operations invocation i is an instance of, the handles it is made on,
\* and the A record outcomes a query meets.
SideOps(i) ==
    IF i = 1 THEN {"ping", "status", "query"}
    ELSE {"async_ping", "async_query", "bedrock_status"}

SideHandles(i) ==
    IF i = 1 THEN { h \in Handles : h.edition = "java" /\ h.port = JAVA_DEFAULT_PORT }
    ELSE Handles

SideDns(o) ==
    IF o \in QueryOps
    THEN { d \in AOutcomes : d.kind = "answer" /\ Len(d.recs) = 1 }
    ELSE { NoDns }

\* The I/O outcomes the interleaved invocations meet: of each step, success
\* and the transport failure that leads to another attempt.
SideOutcomes(call) ==
    CASE call.pc = "connect" -> ConnectOutcomes
      [] call.pc = "handshake" -> { e \in HandshakeOutcomes(call.op) : e.input.r # "protocol" }
      [] call.pc = "read_status" ->
           { e \in ReadStatusOutcomes :
               e.input.reply.kind = "transport" \/ e.input.reply.raw = ValidRaw }
      [] call.pc = "test_ping" ->
           { e \in TestPingOutcomes :
               /\ e.input.token = 14515484
               /\ e.input.reply.kind = "packet" => PongAccepted(e.input.token, e.input.reply)
               /\ e.input.reply.latency <= 0 }
      [] call.pc = "read_query" -> { e \in ReadQueryOutcomes : e.input.reply # "protocol" }
      [] call.pc = "bedrock_read" -> { e \in BedrockReadOutcomes : e.input.reply # "protocol" }
      [] OTHER -> {}

\* Two invocations are made, on the same handle or on different ones.
SideStart ==
    /\ calls = <<>>
    /\ \E o1 \in SideOps(1), o2 \in SideOps(2) :
       \E h1 \in SideHandles(1), h2 \in SideHandles(2) :
       \E d1 \in SideDns(o1), d2 \in SideDns(o2) :
         /\ o1 \in OpsOf(h1)
         /\ o2 \in OpsOf(h2)
         /\ calls' = <<Invocation(o1, h1, d1), Invocation(o2, h2, d2)>>
    /\ pool' = <<>>
    /\ UNCHANGED seqVars

\* The attempts of the invocations that ended with a failure.
Faults(cs) ==
    LET failed(i) == { n \in 1..Len(cs[i].attempts) : cs[i].attempts[n].exc # NoExc }
    IN  Cardinality(failed(1)) + Cardinality(failed(2))

\* Invocation i makes its next step, whatever the other one is doing.
Side(i, step) ==
    /\ calls # <<>>
    /\ calls[i].pc = step
    /\ \E e \in SideOutcomes(calls[i]) :
         LET a == After(calls, pool, i, e)
         IN  /\ Faults(a.calls) <= MaxFaults
             /\ calls' = a.calls
             /\ pool' = a.pool
    /\ UNCHANGED seqVars

SideConnect ==
    /\ calls # <<>>
    /\ \E i \in 1..2 : Side(i, "connect")

SideHandshake ==
    /\ calls # <<>>
    /\ \E i \in 1..2 : Side(i, "handshake")

SideReadStatus ==
    /\ calls # <<>>
    /\ \E i \in 1..2 : Side(i, "read_status")

SideTestPing ==
    /\ calls # <<>>
    /\ \E i \in 1..2 : Side(i, "test_ping")

SideReadQuery ==
    /\ calls # <<>>
    /\ \E i \in 1..2 : Side(i, "read_query")

SideBedrockRead ==
    /\ calls # <<>>
    /\ \E i \in 1..2 : Side(i, "bedrock_read")

SideNext ==
    \/ SideStart
    \/ SideConnect
    \/ SideHandshake
    \/ SideReadStatus
    \/ SideTestPing
    \/ SideReadQuery
    \/ SideBedrockRead

SideSpec == Init /\ [][SideNext]_vars

\* ------------------------------------------------------------------ claims
LastAttempt == attempts[Len(attempts)]

JavaLookupDone ==
    /\ lk.state = "done"
    /\ lk.edition = "java"
    /\ UrlHostname(lk.address) # <<>>
    /\ ~UrlPortRaises(lk.address)

Fallback(address) ==
    [edition |-> "java", host |-> UrlHostname(address), port |-> 25565]

\* C1: within one call, no channel is used by more than one attempt: any two
\* attempts of the call run on different channels.
C1_FreshChannelPerAttempt ==
    \A i, j \in 1..Len(attempts) :
        (i < j /\ attempts[i].chan # 0 /\ attempts[j].chan # 0)
            => attempts[i].chan # attempts[j].chan

\* C2: a call makes at most 3 attempts; when it returns, the value is the one
\* of its last attempt, every earlier attempt failed with a retryable failure,
\* and the call is over (no further attempt is started).
C2_AtMostThreeAttempts ==
    /\ Len(attempts) <= 3
    /\ outcome.kind = "return" =>
         /\ pc = "done"
         /\ Len(attempts) >= 1
         /\ outcome.value.attempt = Len(attempts)
         /\ LastAttempt.exc = NoExc
         /\ \A i \in 1..(Len(attempts) - 1) : attempts[i].exc.cls = "IOError"

C2_Witness ==
    /\ outcome.kind = "return"
    /\ Len(attempts) = 3
    /\ outcome.value.attempt = 3

\* C3: a call whose 3 attempts all failed with transport / protocol failures
\* raises the third attempt's failure unchanged; a call that returns returns a
\* complete value of its last attempt (for status: a payload the builder
\* accepted, with the latency that attempt's test_ping measured), never a
\* default or partial one.
C3_ExhaustionRaisesLastFailure ==
    /\ ( /\ pc = "done"
         /\ Len(attempts) = 3
         /\ \A i \in 1..3 : attempts[i].exc.cause \in IoFailures )
       => /\ outcome = Raise(attempts[3].exc)
          /\ outcome.exc.attempt = 3
    /\ outcome.kind = "return" =>
         /\ outcome.value.kind # "none"
         /\ LastAttempt.exc = NoExc
         /\ op \in StatusOps =>
              /\ JavaStatusResponse_build(outcome.value.raw) = "none"
              /\ LastAttempt.latency \in Latencies
              /\ outcome.value.latency = LastAttempt.latency
         /\ op \in PingOps =>
              /\ LastAttempt.latency \in Latencies
              /\ outcome.value.latency = LastAttempt.latency

C3_Witness ==
    /\ pc = "done"
    /\ Len(attempts) = 3
    /\ \A i \in 1..3 : attempts[i].exc.cause \in IoFailures
    /\ outcome.kind = "raise"
    /\ outcome.exc.step = "test_ping"

\* C4: an attempt that fails on validation (a payload the response builder
\* rejects) is not retried: no attempt follows it, the call is over and raises
\* that failure; a call whose first attempt fails so makes exactly one attempt.
C4_ValidationNeverRetried ==
    \A i \in 1..Len(attempts) :
        attempts[i].exc.cause = "validation"
            => /\ i = Len(attempts)
               /\ pc = "done"
               /\ outcome.kind = "raise"
               /\ outcome.exc.attempt = i
               /\ outcome.exc.cause = "validation"

\* C5: a connect failure reaches the caller of ping / status (blocking or
\* suspendable) only after the connect has been tried 3 times.
C5_ConnectFailureRetried ==
    ( /\ op \in PingOps \cup StatusOps
      /\ outcome.kind = "raise"
      /\ outcome.exc.step = "connect" )
        => Len(chans) = 3

\* C6: status returns only from an attempt that made handshake, read_status,
\* test_ping in that order, and returns that attempt's payload with the latency
\* that attempt's test_ping measured; no attempt whose read_status failed makes
\* test_ping; an attempt whose test_ping failed does not return; ping returns
\* from an attempt that made handshake and test_ping only, exactly when both
\* succeeded.
C6_StatusIsReadStatusThenTestPing ==
    /\ (op \in StatusOps /\ outcome.kind = "return") =>
         /\ LastAttempt.steps = <<"handshake", "read_status", "test_ping">>
         /\ outcome.value.attempt = Len(attempts)
         /\ outcome.value.raw = LastAttempt.result.raw
         /\ LastAttempt.latency \in Latencies
         /\ outcome.value.latency = LastAttempt.latency
    /\ \A i \in 1..Len(attempts) :
         /\ (op \in StatusOps /\ attempts[i].exc.step = "read_status")
              => attempts[i].steps = <<"handshake", "read_status">>
         /\ (op \in StatusOps /\ attempts[i].steps = <<"handshake", "read_status", "test_ping">>
               /\ attempts[i].latency = -1)
              => /\ attempts[i].exc.step = "test_ping"
                 /\ ~(outcome.kind = "return" /\ i = Len(attempts))
         /\ (op \in PingOps /\ attempts[i].steps = <<"handshake", "test_ping">>
               /\ attempts[i].latency \in Latencies)
              => /\ i = Len(attempts)
                 /\ outcome.kind = "return"
                 /\ outcome.value.latency = attempts[i].latency
    /\ (op \in PingOps /\ outcome.kind = "return") =>
         LastAttempt.steps = <<"handshake", "test_ping">>

C6_Witness ==
    /\ op \in StatusOps
    /\ outcome.kind = "return"
    /\ Len(attempts) = 2
    /\ attempts[1].exc.step = "test_ping"
    /\ outcome.value.latency = MaxLatency

\* C7: lookup of an address that holds a port asks the resolver for nothing
\* and yields the handle of the parsed host and port.
C7_ExplicitPortNoSrvLookup ==
    (JavaLookupDone /\ UrlPortText(lk.address) # <<>>) =>
        /\ lk.queried = <<>>
        /\ lk.raised = "none"
        /\ server = [edition |-> "java", host |-> UrlHostname(lk.address),
                     port |-> ToInt(UrlPortText(lk.address))]

C7_Witness ==
    /\ lk.state = "done"
    /\ lk.edition = "java"
    /\ lk.address = <<"mc", ".", "org", ":", "1", "2", "3", "4">>
    /\ server = [edition |-> "java", host |-> <<"mc", ".", "org">>, port |-> 1234]

C9_ManyRecordsFallBack ==
    ( /\ JavaLookupDone
      /\ UrlPortText(lk.address) = <<>>
      /\ lk.srv.kind = "answer"
      /\ Len(lk.srv.recs) > 1
      /\ \A i \in 1..Len(lk.srv.recs) : lk.srv.recs[i].portOk )
        => server = Fallback(lk.address)

\* C10: every channel a query call creates targets the handle's port and the
\* first address of the A-record answer when there is one, the handle's host
\* when the lookup failed or answered with nothing.
C10_QueryTargetsFirstAddress ==
    op \in QueryOps =>
        /\ \A c \in 1..Len(chans) :
             /\ chans[c].port = server.port
             /\ chans[c].host = IF dns.kind = "answer" /\ Len(dns.recs) >= 1
                                THEN RStripDot(dns.recs[1])
                                ELSE server.host
        /\ \A i \in 1..Len(attempts) : attempts[i].chan \in 0..Len(chans)

C10_Witness ==
    /\ op \in QueryOps
    /\ Len(attempts) = 3
    /\ Len(chans) = 3
    /\ dns.kind = "answer"
    /\ Len(dns.recs) = 2
    /\ dns.recs[1] # dns.recs[2]
    /\ chans[3].host = <<"10", ".", "0", ".", "0", ".", "2">>

\* C11: no failure of the resolver reaches the caller: lookup raises nothing
\* when the SRV lookup raised, and a query call never raises the exception of
\* its A-record lookup, whatever its class.
C11_DnsFailureNeverSurfaces ==
    /\ (lk.state = "done" /\ lk.queried # <<>> /\ lk.srv.kind = "raise")
         => lk.raised = "none"
    /\ (op \in QueryOps /\ dns.kind = "raise")
         => ~(outcome.kind = "raise" /\ outcome.exc.cause = "dns")

BedrockLookupDone ==
    /\ lk.state = "done"
    /\ lk.edition = "bedrock"
    /\ UrlHostname(lk.address) # <<>>
    /\ ~UrlPortRaises(lk.address)

\* C12: BedrockServer.lookup asks the resolver for nothing and yields the
\* handle (host, port) for an address with a port, (host, 19132) without.
C12_BedrockLookupParseOnly ==
    BedrockLookupDone =>
        /\ lk.queried = <<>>
        /\ lk.raised = "none"
        /\ server = [edition |-> "bedrock", host |-> UrlHostname(lk.address),
                     port |-> IF UrlPortText(lk.address) = <<>> THEN 19132
                              ELSE ToInt(UrlPortText(lk.address))]

\* C13: every handle has a non-empty host and a port within 0..65535, and a
\* construction from any other host or port raises and yields no handle.
C13_HandleInvariant ==
    /\ server.edition # "none" =>
         /\ server.host # <<>>
         /\ server.port \in 0..65535
    /\ ( /\ unit.kind = "ctor"
         /\ \/ unit.host.t # "str"
            \/ unit.host = StrObj(<<>>)
            \/ unit.port.t # "int"
            \/ unit.port.v \notin 0..65535 )
       => /\ unit.raised # "none"
          /\ server = NoServer

\* The three keys of a status payload, with the types the spec gives them.
TopKeys == {"players", "version", "description"}
TopType(k) == IF k = "description" THEN "str" ELSE "dict"

\* C14: an attempt whose read_status received a packet with another id, JSON
\* that does not parse, or a payload in which players, version or description
\* is absent or of the wrong type, ended with an IOError raised by
\* read_status and holds no response.
C14_BadReplyIsIOError ==
    \A i \in 1..Len(attempts) :
        LET a == attempts[i]
        IN  ( \/ a.reply.kind \in {"badid", "badjson"}
              \/ /\ a.reply.kind = "payload"
                 /\ \E k \in TopKeys :
                      \/ k \notin DOMAIN a.reply.raw
                      \/ ~IsInstance(a.reply.raw[k].t, TopType(k)) )
            => /\ a.exc.cls = "IOError"
               /\ a.exc.step = "read_status"
               /\ a.result = NoValue

C14_Witness ==
    \E i \in 1..Len(attempts) :
        /\ attempts[i].reply.kind = "payload"
        /\ "description" \notin DOMAIN attempts[i].reply.raw
        /\ attempts[i].exc.cls = "IOError"
        /\ attempts[i].result = NoValue

\* A key of `keys` is not in the dict obj.
Lacks(obj, keys) == obj.t = "dict" /\ \E k \in keys : k \notin DOMAIN obj.v

\* The key k of the dict obj holds a value that is no instance of type.
Mistyped(obj, k, type) ==
    obj.t = "dict" /\ k \in DOMAIN obj.v /\ ~IsInstance(obj.v[k].t, type)

\* The object under key k of the dict obj (an object of no type when absent).
Under(obj, k) == IF obj.t = "dict" /\ k \in DOMAIN obj.v THEN obj.v[k] ELSE Absent

\* The elements of the list under players.sample (none when there is no list).
SamplePlayers(raw) ==
    LET q == Under(Under(DictObj(raw), "players"), "sample")
    IN  IF q.t = "list" THEN {q.v[i] : i \in 1..Len(q.v)} ELSE {}

\* Some required key is not present, at any level of the payload.
MissingRequired(raw) ==
    \/ Lacks(DictObj(raw), TopKeys)
    \/ Lacks(Under(DictObj(raw), "players"), {"online", "max"})
    \/ Lacks(Under(DictObj(raw), "version"), {"name", "protocol"})
    \/ \E pl \in SamplePlayers(raw) : Lacks(pl, {"name", "id"})

\* Some required key, or the optional sample, holds a value of another type.
WrongType(raw) ==
    \/ \E k \in TopKeys : Mistyped(DictObj(raw), k, TopType(k))
    \/ \E k \in {"online", "max"} : Mistyped(Under(DictObj(raw), "players"), k, "int")
    \/ Mistyped(Under(DictObj(raw), "players"), "sample", "list")
    \/ Mistyped(Under(DictObj(raw), "version"), "name", "str")
    \/ Mistyped(Under(DictObj(raw), "version"), "protocol", "int")
    \/ \E pl \in SamplePlayers(raw) : \E k \in {"name", "id"} : Mistyped(pl, k, "str")

\* C15 as stated: a payload without some required key makes build raise
\* ValueError and construct nothing, whatever the other keys hold.
C15_MissingKeyIsValueError ==
    (unit.kind = "build" /\ MissingRequired(unit.raw))
        => (unit.raised = "ValueError" /\ unit.value = NotBuilt)

\* C15, amended: a payload without some required key makes build construct
\* nothing and raise ValueError or TypeError; it is ValueError when no key
\* that is present holds a value of another type than expected.
C15_MissingKeyFailsBuild ==
    (unit.kind = "build" /\ MissingRequired(unit.raw))
        => /\ unit.value = NotBuilt
           /\ unit.raised \in {"ValueError", "TypeError"}
           /\ ~WrongType(unit.raw) => unit.raised = "ValueError"

C15_Witness ==
    /\ unit.kind = "build"
    /\ "version" \notin DOMAIN unit.raw
    /\ ~WrongType(unit.raw)
    /\ unit.raised = "ValueError"
    /\ unit.value = NotBuilt

\* C16 as stated: a payload in which a required key, or the sample, holds a
\* value of another type makes build raise TypeError and construct nothing.
C16_WrongTypeIsTypeError ==
    (unit.kind = "build" /\ WrongType(unit.raw))
        => (unit.raised = "TypeError" /\ unit.value = NotBuilt)

\* C16, amended: such a payload makes build construct nothing and raise
\* TypeError or ValueError; it is TypeError when no required key is absent.
C16_WrongTypeFailsBuild ==
    (unit.kind = "build" /\ WrongType(unit.raw))
        => /\ unit.value = NotBuilt
           /\ unit.raised \in {"ValueError", "TypeError"}
           /\ ~MissingRequired(unit.raw) => unit.raised = "TypeError"

C16_Witness ==
    /\ unit.kind = "build"
    /\ Mistyped(Under(DictObj(unit.raw), "players"), "sample", "list")
    /\ ~MissingRequired(unit.raw)
    /\ unit.raised = "TypeError"
    /\ unit.value = NotBuilt

\* The payload is valid but for its description, which is present.
ValidButDescription(raw) ==
    /\ "description" \in DOMAIN raw
    /\ LET plain == [raw EXCEPT !.description = ValidDescription]
       IN  ~MissingRequired(plain) /\ ~WrongType(plain)

\* C17: build succeeds on an otherwise valid payload whose description is a
\* mapping or a list of rich-text entries, with the flattening of the
\* description as motd; a description that is a string is the motd unchanged.
C17_RichDescriptionBuilds ==
    ( /\ unit.kind = "build"
      /\ ValidButDescription(unit.raw)
      /\ unit.raw.description.t \in {"str", "dict", "list"} )
    => /\ unit.raised = "none"
       /\ unit.value # NotBuilt
       /\ unit.value.motd = parse_motd(unit.raw.description)
       /\ unit.raw.description.t = "str" => unit.value.motd = unit.raw.description.v

\* C18: an otherwise valid payload builds with or without favicon and sample:
\* icon is None without favicon, players.sample is None without sample, and
\* the required fields hold the payload's values.
C18_OptionalFieldsTurnIntoNone ==
    (unit.kind = "build" /\ ~MissingRequired(unit.raw) /\ ~WrongType(unit.raw))
    => /\ unit.raised = "none"
       /\ unit.value.raw = unit.raw
       /\ unit.value.icon = IF "favicon" \in DOMAIN unit.raw THEN unit.raw.favicon ELSE NoneObj
       /\ "sample" \notin DOMAIN unit.raw.players.v => unit.value.players.sample = NoneObj
       /\ "sample" \in DOMAIN unit.raw.players.v =>
            /\ unit.value.players.sample.t = "list"
            /\ Len(unit.value.players.sample.v) = Len(unit.raw.players.v.sample.v)
            /\ \A i \in 1..Len(unit.raw.players.v.sample.v) :
                 /\ unit.value.players.sample.v[i].name = unit.raw.players.v.sample.v[i].v.name
                 /\ unit.value.players.sample.v[i].id = unit.raw.players.v.sample.v[i].v.id
       /\ unit.value.players.online = unit.raw.players.v.online
       /\ unit.value.players.max = unit.raw.players.v.max
       /\ unit.value.version.name = unit.raw.version.v.name
       /\ unit.value.version.protocol = unit.raw.version.v.protocol
       /\ unit.value.motd = unit.raw.description.v

C18_Witness ==
    /\ unit.kind = "build"
    /\ ~MissingRequired(unit.raw)
    /\ ~WrongType(unit.raw)
    /\ "favicon" \notin DOMAIN unit.raw
    /\ "sample" \notin DOMAIN unit.raw.players.v
    /\ unit.raised = "none"
    /\ unit.value.icon = NoneObj
    /\ unit.value.players.sample = NoneObj

\* The field list holds the six guaranteed fields, the numbers numeric.
BedrockGuaranteed(decoded) ==
    /\ Len(decoded) >= 6
    /\ Numeric(decoded[3])
    /\ Numeric(decoded[5])
    /\ Numeric(decoded[6])

\* C19: BedrockStatusResponse.build succeeds on every field list that holds
\* the six guaranteed fields; map_name is the eighth field when the list has
\* one and None otherwise, gamemode the ninth when the list has one and None
\* otherwise.
C19_BedrockOptionalFields ==
    (unit.kind = "bedrock_build" /\ BedrockGuaranteed(unit.decoded))
    => /\ unit.raised = "none"
       /\ unit.value.map_name =
            IF Len(unit.decoded) >= 8 THEN StrObj(unit.decoded[8]) ELSE NoneObj
       /\ unit.value.gamemode =
            IF Len(unit.decoded) >= 9 THEN StrObj(unit.decoded[9]) ELSE NoneObj

C19_Witness ==
    /\ unit.kind = "bedrock_build"
    /\ BedrockGuaranteed(unit.decoded)
    /\ Len(unit.decoded) = 8
    /\ unit.raised = "none"
    /\ unit.value.map_name = StrObj(<<"map">>)
    /\ unit.value.gamemode = NoneObj

\* C20: read_status() and test_ping() called on a pinger on which handshake()
\* was not called raise, write no request and return no result.
C20_MethodsRequireHandshake ==
    ( /\ unit.kind = "pinger"
      /\ unit.called \in {"read_status", "test_ping"}
      /\ ~unit.handshaken )
    => /\ unit.exc # NoExc
       /\ unit.sent = <<>>
       /\ unit.value = NoValue
       /\ unit.latency = -1

\* C21: test_ping returns a latency, which is not negative, exactly when the
\* reply is a packet of id 1 that echoes the token sent; on a packet of
\* another id or with another token it raises IOError and returns nothing.
C21_PingTokenIntegrity ==
    (unit.kind = "pinger" /\ unit.called = "test_ping")
    => /\ (unit.exc = NoExc /\ unit.latency >= 0)
            <=> (unit.pong.kind = "packet" /\ unit.pong.id = 1
                   /\ unit.pong.token = unit.token)
       /\ ( /\ unit.pong.kind = "packet"
            /\ (unit.pong.id # 1 \/ unit.pong.token # unit.token) )
          => (unit.exc.cls = "IOError" /\ unit.latency = -1)

C21_Witness ==
    /\ unit.kind = "pinger"
    /\ unit.called = "test_ping"
    /\ unit.pong.kind = "packet"
    /\ unit.pong.id = 1
    /\ unit.pong.token # unit.token
    /\ unit.exc.cls = "IOError"
    /\ unit.latency = -1

\* The bytes start with the varint of the number of bytes that follow it.
Framed(bytes) ==
    \E k \in 1..Len(bytes) : SubSeq(bytes, 1, k) = WriteVarint(Len(bytes) - k)

\* The bytes after the length prefix.
Body(bytes) ==
    LET k == CHOOSE j \in 1..Len(bytes) : SubSeq(bytes, 1, j) = WriteVarint(Len(bytes) - j)
    IN  SubSeq(bytes, k + 1, Len(bytes))

\* C22: every packet a pinger has written starts with the varint length of
\* the rest, which is the packet id followed by the fields in order; the
\* handshake for localhost, 25565, protocol 44 is 0F 00 2C 09 'localhost'
\* 63 DD 01, the status request 01 00, the ping 09 01 and the token in eight
\* bytes, big-endian.
C22_PacketFraming ==
    unit.kind = "pinger" =>
      \A i \in 1..Len(unit.sent) :
        LET p == unit.sent[i]
        IN  /\ Framed(p.bytes)
            /\ p.name = "handshake" =>
                 /\ Body(p.bytes)[1] = 0
                 /\ Body(p.bytes)[Len(Body(p.bytes))] = 1
                 /\ SubSeq(Body(p.bytes), Len(Body(p.bytes)) - 2, Len(Body(p.bytes)) - 1)
                      = <<unit.target.port \div 256, unit.target.port % 256>>
                 /\ (unit.target.port = 25565 /\ unit.target.version = 44)
                      => p.bytes = <<15, 0, 44, 9, 108, 111, 99, 97, 108, 104, 111, 115, 116,
                                     99, 221, 1>>
            /\ p.name = "status_request" => p.bytes = <<1, 0>>
            /\ p.name = "ping_request" =>
                 /\ Len(p.bytes) = 10
                 /\ SubSeq(p.bytes, 1, 2) = <<9, 1>>
                 /\ unit.token = 14515484
                      => p.bytes = <<9, 1, 0, 0, 0, 0, 0, 221, 125, 28>>

C22_Witness ==
    /\ unit.kind = "pinger"
    /\ Len(unit.sent) = 2
    /\ unit.sent[1].bytes = <<15, 0, 44, 9, 108, 111, 99, 97, 108, 104, 111, 115, 116, 99, 221, 1>>
    /\ unit.sent[2].bytes = <<9, 1, 0, 0, 0, 0, 0, 221, 125, 28>>

\* C24: when a ping, status or query call has returned or raised, every
\* channel it opened has been released.
C24_ChannelsReleased ==
    (pc = "done" /\ op \in Ops)
        => \A i \in 1..Len(chans) : chans[i].connected => chans[i].released

\* C26: the response a status call returns was built by read_status of the
\* attempt that returned it, from that attempt's payload, and differs from
\* the object built only in latency, which is the one test_ping of the same
\* attempt measured after read_status.
C26_OnlyLatencyAssigned ==
    (pc = "done" /\ op \in StatusOps /\ outcome.kind = "return")
    => LET n == Len(attempts)
           a == attempts[n]
       IN  /\ outcome.value.attempt = n
           /\ a.reply.kind = "payload"
           /\ a.result = [kind |-> "status", raw |-> a.reply.raw, latency |-> 0, attempt |-> n]
           /\ outcome.value = [a.result EXCEPT !.latency = a.latency]
           /\ a.latency \in Latencies
           /\ a.steps = <<"handshake", "read_status", "test_ping">>
           /\ JavaStatusResponse_built(outcome.value.raw, outcome.value.latency).value
                = [JavaStatusResponse_built(a.reply.raw, 0).value
                     EXCEPT !.latency = a.latency]

C26_Witness ==
    /\ pc = "done"
    /\ op \in StatusOps
    /\ outcome.kind = "return"
    /\ Len(attempts) = 2
    /\ attempts[2].result.latency = 0
    /\ outcome.value.latency = 1

\* C27: in a query call every attempt that sent its stat request had made
\* its own connection and handshake first, and the request carried the
\* challenge token of that handshake; an attempt that has made no handshake
\* holds no token, whatever the attempts before it held.
C27_ChallengePerAttempt ==
    op \in QueryOps =>
      \A i \in 1..Len(attempts) :
        LET a == attempts[i]
            shaken == \E k \in 1..Len(a.steps) : a.steps[k] = "handshake"
        IN  /\ ~shaken => (a.challenge = NoChallenge /\ a.stat_challenge = NoChallenge)
            /\ a.stat_challenge # NoChallenge =>
                 /\ a.steps = <<"connect", "handshake", "read_query">>
                 /\ a.stat_challenge = a.challenge
                 /\ a.challenge \in Challenges
            /\ \A j \in 1..(i - 1) : attempts[j].chan # a.chan \/ a.chan = 0

C27_Witness ==
    /\ op \in QueryOps
    /\ Len(attempts) = 3
    /\ attempts[1].challenge = 1
    /\ attempts[2].challenge = 2
    /\ attempts[2].stat_challenge = 2
    /\ attempts[3].challenge = NoChallenge
    /\ attempts[3].steps = <<"connect">>

\* C28: lookup of an address without a port yields either the target and
\* port of a record of the SRV answer, or the parsed host with port 25565;
\* never the target of a record with the default port.
C28_LookupAtomic ==
    ( /\ JavaLookupDone
      /\ UrlPortText(lk.address) = <<>>
      /\ lk.raised = "none" )
    => \/ server = Fallback(lk.address)
       \/ \E i \in 1..Len(lk.srv.recs) :
            server = [edition |-> "java", host |-> RStripDot(lk.srv.recs[i].target),
                      port |-> lk.srv.recs[i].port]

\* The code the claim gives a style key of an entry: one when the entry
\* holds the key with a truthy value.
CodeFor(entry, key, code) ==
    IF key \in DOMAIN entry /\ Truthy(entry[key]) THEN <<"$", code>> ELSE <<>>

\* The colour code of an entry: none when the name is not in the table.
ColorFor(entry) ==
    IF "color" \in DOMAIN entry /\ entry.color.v # <<>>
       /\ entry.color.v[1] \in DOMAIN ColorCodes
    THEN <<"$", ColorCodes[entry.color.v[1]]>>
    ELSE <<>>

FlatEntry(entry) ==
    ColorFor(entry) \o CodeFor(entry, "bold", "l") \o CodeFor(entry, "strikethrough", "m")
    \o CodeFor(entry, "italic", "o") \o CodeFor(entry, "underlined", "n")
    \o CodeFor(entry, "obfuscated", "k") \o CodeFor(entry, "reset", "r")
    \o (IF "text" \in DOMAIN entry THEN entry.text.v ELSE <<>>)

RECURSIVE Flat(_)
Flat(entries) ==
    IF entries = <<>> THEN <<>>
    ELSE FlatEntry(entries[1].v) \o Flat(SubSeq(entries, 2, Len(entries)))

\* C29: _parse_motd of a list is the entries' style codes and texts, in
\* order; of a mapping, those of its extra list followed by its text; the
\* style table is the same after the call and a second call returns the same.
C29_MotdFlattening ==
    unit.kind = "motd" =>
      /\ unit.raw_motd.t = "list" => unit.out = Flat(unit.raw_motd.v)
      /\ unit.raw_motd.t = "dict" =>
           unit.out = Flat(IF "extra" \in DOMAIN unit.raw_motd.v
                           THEN unit.raw_motd.v.extra.v ELSE <<>>)
                      \o (IF "text" \in DOMAIN unit.raw_motd.v
                          THEN unit.raw_motd.v.text.v ELSE <<>>)
      /\ unit.table = STYLE_MAP
      /\ unit.again = unit.out

C29_Witness ==
    /\ unit.kind = "motd"
    /\ unit.raw_motd = RichDict
    /\ unit.out = <<"$", "c", "$", "l", "Hi", "!">>
    /\ unit.again = unit.out

\* The channels of invocation i, in order of creation, as the network sees
\* them.
ChannelsOf(i) ==
    LET ids == { k \in 1..Len(pool) : pool[k].owner = i }
        RECURSIVE From(_)
        From(k) ==
            IF k > Len(pool) THEN <<>>
            ELSE IF k \in ids
            THEN <<[kind |-> pool[k].kind, host |-> pool[k].host, port |-> pool[k].port,
                    connected |-> pool[k].connected]>> \o From(k + 1)
            ELSE From(k + 1)
    IN  From(1)

\* The place of channel id among the channels of its owner (0: no channel).
Place(id) ==
    IF id = 0 THEN 0 ELSE Cardinality({ k \in 1..id : pool[k].owner = pool[id].owner })

\* What a call did: its attempts with the protocol steps, replies, latency,
\* tokens and failure of each, and the channel each ran on, by place.
Course(call) ==
    [n \in 1..Len(call.attempts) |-> [call.attempts[n] EXCEPT !.chan = Place(@)]]

\* C25: the blocking and the suspendable form of an operation, given the same
\* I/O outcomes, make the same channels, the same protocol steps in the same
\* attempts, the same retry decisions, and end with the same value or failure.
C25_FormsEquivalent ==
    calls # <<>> =>
      /\ calls[1].pc = calls[2].pc
      /\ calls[1].qhost = calls[2].qhost
      /\ Course(calls[1]) = Course(calls[2])
      /\ ChannelsOf(1) = ChannelsOf(2)
      /\ calls[1].outcome = calls[2].outcome

C25_Witness ==
    /\ calls # <<>>
    /\ calls[1].op = "status"
    /\ calls[2].op = "async_status"
    /\ calls[2].pc = "done"
    /\ Len(calls[2].attempts) = 3
    /\ calls[2].attempts[1].exc.step = "handshake"
    /\ calls[2].attempts[2].exc.step = "test_ping"
    /\ calls[2].outcome.kind = "return"
    /\ calls[1].outcome = calls[2].outcome

\* The call an invocation would be had it met its I/O outcomes with no other
\* invocation around: its steps replayed on channels of its own.
RECURSIVE Replayed(_, _, _)
Replayed(call, io, made) ==
    IF io = <<>> THEN call
    ELSE Replayed(IoStep(call, Head(io), made + 1), Tail(io),
                  IF Creates(Head(io)) THEN made + 1 ELSE made)

Alone(inv) == Replayed(Started(inv.op, inv.server, inv.dns), inv.io, 0)

\* C23: of two invocations interleaved in any way, each runs its attempts on
\* channels it created itself, no channel is written or read by an invocation
\* other than its creator, and each invocation is where, and ends as, its own
\* I/O outcomes alone determine.
C23_NoSharedProtocolState ==
    calls # <<>> =>
      /\ \A k \in 1..Len(pool) : pool[k].users \subseteq {pool[k].owner}
      /\ \A i \in 1..2 :
           LET alone == Alone(calls[i])
           IN  /\ \A n \in 1..Len(calls[i].attempts) :
                    calls[i].attempts[n].chan # 0 =>
                      pool[calls[i].attempts[n].chan].owner = i
               /\ calls[i].pc = alone.pc
               /\ calls[i].outcome = alone.outcome
               /\ Len(calls[i].attempts) = Len(alone.attempts)
               /\ \A n \in 1..Len(calls[i].attempts) :
                    Course(calls[i])[n] = alone.attempts[n]

C23_Witness ==
    /\ calls # <<>>
    /\ calls[1].server = calls[2].server
    /\ calls[1].op = "query"
    /\ calls[2].op = "async_ping"
    /\ Len(pool) = 3
    /\ pool[1].owner = 1
    /\ pool[2].owner = 2
    /\ pool[3].owner = 1
    /\ calls[1].pc = "done"
    /\ calls[2].pc = "done"
    /\ calls[1].outcome.kind = "return"
    /\ calls[1].attempts[2].challenge \in Challenges
    /\ calls[2].outcome.kind = "return"
    /\ Len(calls[2].attempts) = 2
    /\ calls[2].attempts[1].chan = 2
    /\ calls[2].attempts[2].chan = 2
====
